---- MODULE Spec2Model ----
(***************************************************************************)
(* Model of netmonitor's IP-information cache (netmonitor/core.py):        *)
(* the resolver core.get_ip_infos, the class IpInfoCache with its          *)
(* dictionary _cache_dict, and the JSON file the cache is saved to.        *)
(*                                                                         *)
(* Python values are modelled as follows.                                  *)
(*   None / JSON null         the string None                              *)
(*   a tuple or a list        [kind |-> "tuple" | "list", elems |-> seq]   *)
(*   a dict (insertion order) [type |-> "dict", items |-> seq of <<k, v>>] *)
(*   a JSON document          [type |-> "object" | "array", items |-> ...] *)
(*                            whose values are [kind |-> "array", ...]     *)
(*   a DataFrame              [columns |-> seq, rows |-> seq of tuples]    *)
(***************************************************************************)
EXTENDS Integers, Sequences, FiniteSets, TLC

VARIABLES
    caches,     \* instance name -> its _cache_dict
    file,       \* the content of the cache file on disk
    last,       \* the last call: operation, arguments, outcome, result
    resolved,   \* the last call of the resolver core.get_ip_infos
    script,     \* the state of a run of capture_connections.py
    private,    \* the last call of core.is_private_ip
    window,     \* the main window of the application (ui.NetmonitorWindow)
    since       \* resolver calls and requested ips since the cache was empty

vars == <<caches, file, last, resolved, script, private, window, since>>

-----------------------------------------------------------------------------
(* Bounds and value domains *)

\* longest pandas Series handed to match_ip_infos
MaxSeries == 3

None == "None"
NaN == "NaN"
\* a key the response JSON does not hold
Absent == "<absent>"

IpAddresses == {"172.217.0.0", "20.54.232.x"}

\* cache: the program's cache; new_cache: a second, freshly constructed one;
\* cache_copy: the variable a caller binds the result of cache.copy() to
Instances == {"cache", "new_cache", "cache_copy"}

Returned == "returned"

RECURSIVE SeqsUpTo(_, _)
SeqsUpTo(S, n) ==
    IF n = 0 THEN {<<>>}
    ELSE LET shorter == SeqsUpTo(S, n - 1)
         IN  shorter \cup {Append(s, x) : s \in shorter, x \in S}

-----------------------------------------------------------------------------
(* The resolver: core.get_ip_infos *)

\* what ipinfo.io does with one request: fails |-> the request or the read
\* raises; otherwise a status and the org / country fields of the body
Response(fails, status, org, country) ==
    [fails |-> fails, status |-> status, org |-> org, country |-> country]

\* the responses the service gives in the cache specifications
Responses ==
    { Response(TRUE, 0, Absent, Absent),
      Response(FALSE, 404, Absent, Absent),
      Response(FALSE, 200, "Google LLC", "US") }

\* ip_infos.get(key): None for a missing key
dict_get(field) == IF field = Absent THEN None ELSE field

get_ip_infos_none_only(ip_address, response) ==
    IF ip_address = None
    THEN [outcome |-> Returned, value |-> <<None, None>>, requested |-> FALSE]
    ELSE IF response.fails
    THEN [outcome |-> "OSError", value |-> <<None, None>>, requested |-> TRUE]
    ELSE IF response.status = 200
    THEN [outcome |-> Returned,
          value |-> <<dict_get(response.org), dict_get(response.country)>>,
          requested |-> TRUE]
    ELSE [outcome |-> Returned, value |-> <<None, None>>, requested |-> TRUE]
get_ip_infos(ip_address, response) ==
    IF ip_address = None \/ ip_address = ""
    THEN [outcome |-> Returned, value |-> <<None, None>>, requested |-> FALSE]
    ELSE IF response.fails
    THEN [outcome |-> "OSError", value |-> <<None, None>>, requested |-> TRUE]
    ELSE IF response.status = 200
    THEN [outcome |-> Returned,
          value |-> <<dict_get(response.org), dict_get(response.country)>>,
          requested |-> TRUE]
    ELSE [outcome |-> Returned, value |-> <<None, None>>, requested |-> TRUE]

-----------------------------------------------------------------------------
(* Python dict and JSON *)

Tuple(elems) == [kind |-> "tuple", elems |-> elems]
NoResult == [kind |-> "none", elems |-> <<>>]
NoFrame == [columns |-> <<>>, rows |-> <<>>]

\* IpInfoCache.__init__: self._cache_dict = {}
EmptyDict == [type |-> "dict", items |-> <<>>]

Keys(d) == {d.items[i][1] : i \in 1..Len(d.items)}

\* key in d
ContainsNever(d, key) == FALSE
Contains(d, key) ==
    \E i \in 1..Len(d.items) :
        IF d.type = "dict" THEN d.items[i][1] = key ELSE d.items[i] = key

\* d[key]
GetItem(d, key) ==
    d.items[CHOOSE i \in 1..Len(d.items) : d.items[i][1] = key][2]

\* d[key] = value
SetItemEvicting(d, key, value) == [d EXCEPT !.items = << <<key, value>> >>]
SetItem(d, key, value) ==
    IF \E i \in 1..Len(d.items) : d.items[i][1] = key
    THEN [d EXCEPT !.items =
            [i \in 1..Len(d.items) |->
                IF d.items[i][1] = key THEN <<key, value>> ELSE d.items[i]]]
    ELSE [d EXCEPT !.items = Append(d.items, <<key, value>>)]

\* json.dump: a dict becomes an object, a list an array; tuples and lists
\* both become arrays
json_dump(obj) ==
    [type |-> IF obj.type = "dict" THEN "object" ELSE "array",
     items |-> [i \in 1..Len(obj.items) |->
                  IF obj.type = "dict"
                  THEN <<obj.items[i][1],
                         [kind |-> "array", elems |-> obj.items[i][2].elems]>>
                  ELSE obj.items[i]]]

\* json.load: an object becomes a dict, an array a list
json_load(doc) ==
    [type |-> IF doc.type = "object" THEN "dict" ELSE "list",
     items |-> [i \in 1..Len(doc.items) |->
                  IF doc.type = "object"
                  THEN <<doc.items[i][1],
                         [kind |-> "list", elems |-> doc.items[i][2].elems]>>
                  ELSE doc.items[i]]]

\* file contents
NoDoc == [type |-> "none", items |-> <<>>]
Missing == [kind |-> "missing", doc |-> NoDoc]
\* text that is not JSON, such as  not json
NotJson == [kind |-> "text", doc |-> NoDoc]
\* bytes that are not UTF-8
NotUtf8 == [kind |-> "bytes", doc |-> NoDoc]
JsonFile(doc) == [kind |-> "json", doc |-> doc]

Array(elems) == [kind |-> "array", elems |-> elems]

\* what may lie at the cache file's path before the program first runs
ExternalFiles ==
    { Missing, NotJson, NotUtf8,
      JsonFile([type |-> "array", items |-> <<>>]),
      JsonFile([type |-> "object",
                items |-> << <<"20.54.232.x", Array(<<None, None>>)>>,
                             <<"172.217.0.0", Array(<<"Google LLC", "US">>)>> >>]),
      JsonFile([type |-> "object",
                items |-> << <<"172.217.0.0", Array(<<"Google LLC">>)>> >>]) }

-----------------------------------------------------------------------------
(* class IpInfoCache: the methods as functions of the dictionary *)

\* load_from_json: the new dictionary and how the call ended
load_merging(d, f) ==
    IF f.kind = "json" /\ f.doc.type = "object" /\ d.type = "dict"
    THEN LET loaded == json_load(f.doc)
             kept == SelectSeq(d.items, LAMBDA it : it[1] \notin Keys(loaded))
         IN  [dict |-> [type |-> "dict", items |-> kept \o loaded.items],
              outcome |-> Returned]
    ELSE IF f.kind = "json" THEN [dict |-> json_load(f.doc), outcome |-> Returned]
    ELSE IF f.kind = "bytes" THEN [dict |-> d, outcome |-> "UnicodeDecodeError"]
    ELSE [dict |-> EmptyDict, outcome |-> Returned]
load_from_json(d, f) ==
    CASE f.kind = "json"    -> [dict |-> json_load(f.doc), outcome |-> Returned]
      [] f.kind = "missing" -> [dict |-> EmptyDict, outcome |-> Returned]
      [] f.kind = "text"    -> [dict |-> EmptyDict, outcome |-> Returned]
      [] f.kind = "bytes"   -> [dict |-> d, outcome |-> "UnicodeDecodeError"]

\* save_to_json: the new content of the file
save_to_json(d) == JsonFile(json_dump(d))

\* IpInfoCache.get_ip_infos: the new dictionary, how the call ended, what it
\* returned and the resolver calls it made
cache_get_forgetting_unknown(d, ip_address, response) ==
    IF Contains(d, ip_address)
    THEN [dict |-> d, outcome |-> Returned, result |-> GetItem(d, ip_address),
          calls |-> <<>>]
    ELSE LET r == get_ip_infos(ip_address, response)
         IN  IF r.outcome # Returned
             THEN [dict |-> d, outcome |-> r.outcome, result |-> NoResult,
                   calls |-> <<ip_address>>]
             ELSE IF d.type # "dict"
             THEN [dict |-> d, outcome |-> "TypeError", result |-> NoResult,
                   calls |-> <<ip_address>>]
             ELSE [dict |-> IF r.value = <<None, None>> THEN d
                            ELSE SetItem(d, ip_address, Tuple(r.value)),
                   outcome |-> Returned, result |-> Tuple(r.value),
                   calls |-> <<ip_address>>]
cache_get_not_storing(d, ip_address, response) ==
    IF Contains(d, ip_address)
    THEN [dict |-> d, outcome |-> Returned, result |-> GetItem(d, ip_address),
          calls |-> <<>>]
    ELSE LET r == get_ip_infos(ip_address, response)
         IN  [dict |-> d, outcome |-> r.outcome,
              result |-> IF r.outcome = Returned THEN Tuple(r.value) ELSE NoResult,
              calls |-> <<ip_address>>]
cache_get_ip_infos(d, ip_address, response) ==
    IF Contains(d, ip_address)
    THEN [dict |-> d, outcome |-> Returned, result |-> GetItem(d, ip_address),
          calls |-> <<>>]
    ELSE LET r == get_ip_infos(ip_address, response)
         IN  IF r.outcome # Returned
             THEN [dict |-> d, outcome |-> r.outcome, result |-> NoResult,
                   calls |-> <<ip_address>>]
             ELSE IF d.type # "dict"
             \* item assignment with a str index on a list
             THEN [dict |-> d, outcome |-> "TypeError", result |-> NoResult,
                   calls |-> <<ip_address>>]
             ELSE [dict |-> SetItem(d, ip_address, Tuple(r.value)),
                   outcome |-> Returned, result |-> Tuple(r.value),
                   calls |-> <<ip_address>>]

\* isinstance(ip_addresses, pd.Series)
IsSeriesOrNone(ip_addresses) == ip_addresses.kind \in {"Series", "NoneType"}
IsNonEmptySeries(ip_addresses) ==
    ip_addresses.kind = "Series" /\ Len(ip_addresses.items) > 0
IsSeries(ip_addresses) == ip_addresses.kind = "Series"

\* ip_addresses is None or len(ip_addresses) == 0
IsEmptyInput(ip_addresses) ==
    ip_addresses.kind = "NoneType" \/ Len(ip_addresses.items) = 0

\* Series.unique(): the distinct values in order of first appearance
RECURSIVE unique_last(_)
unique_last(s) ==
    IF s = <<>> THEN <<>>
    ELSE LET u == unique_last(Tail(s))
         IN  IF \E i \in 1..Len(u) : u[i] = Head(s) THEN u
             ELSE <<Head(s)>> \o u
NoDedup(s) == s
RECURSIVE unique(_)
unique(s) ==
    IF s = <<>> THEN <<>>
    ELSE LET u == unique(SubSeq(s, 1, Len(s) - 1))
             x == s[Len(s)]
         IN  IF \E i \in 1..Len(u) : u[i] = x THEN u ELSE Append(u, x)

\* the loop of match_ip_infos over unique_addresses; acc holds the
\* dictionary, the rows of unique_frame so far and the resolver calls
RECURSIVE resolve_unique(_, _, _)
resolve_unique(acc, todo, responses) ==
    IF todo = <<>> \/ acc.outcome # Returned THEN acc
    ELSE LET ip == Head(todo)
             g == cache_get_ip_infos(acc.dict, ip, responses[ip])
             calls == acc.calls \o g.calls
         IN  IF g.outcome # Returned
             THEN [acc EXCEPT !.dict = g.dict, !.outcome = g.outcome,
                              !.calls = calls]
             \* org, country = ... unpacks exactly two values
             ELSE IF Len(g.result.elems) # 2
             THEN [acc EXCEPT !.dict = g.dict, !.outcome = "ValueError",
                              !.calls = calls]
             ELSE resolve_unique(
                    [acc EXCEPT !.dict = g.dict, !.calls = calls,
                                !.rows = Append(@, <<ip, g.result.elems[1],
                                                     g.result.elems[2]>>)],
                    Tail(todo), responses)

\* pd.merge(original_frame, unique_frame, on="ip", how="left"): every left
\* row, in order, joined with each right row of the same ip
RECURSIVE merge_left(_, _)
merge_left(left, right) ==
    IF left = <<>> THEN <<>>
    ELSE LET ip == Head(left)
             m == SelectSeq(right, LAMBDA r : r[1] = ip)
             joined == IF m = <<>> THEN << <<ip, NaN, NaN>> >> ELSE m
         IN  joined \o merge_left(Tail(left), right)

\* IpInfoCache.match_ip_infos: the new dictionary, how the call ended, the
\* frame it returned and the resolver calls it made
match_rolling_back(d, ip_addresses, responses) ==
    IF ~IsSeries(ip_addresses)
    THEN [dict |-> d, outcome |-> "AttributeError", frame |-> NoFrame,
          calls |-> <<>>]
    ELSE IF IsEmptyInput(ip_addresses)
    THEN [dict |-> d, outcome |-> Returned,
          frame |-> [columns |-> <<"org", "country">>, rows |-> <<>>],
          calls |-> <<>>]
    ELSE LET unique_addresses == unique(ip_addresses.items)
             acc == resolve_unique(
                      [dict |-> d, outcome |-> Returned, rows |-> <<>>,
                       calls |-> <<>>],
                      unique_addresses, responses)
         IN  IF acc.outcome # Returned
             THEN [dict |-> d, outcome |-> acc.outcome,
                   frame |-> NoFrame, calls |-> acc.calls]
             ELSE [dict |-> acc.dict, outcome |-> Returned,
                   frame |-> [columns |-> <<"ip", "org", "country">>,
                              rows |-> merge_left(ip_addresses.items, acc.rows)],
                   calls |-> acc.calls]
match_ip_infos(d, ip_addresses, responses) ==
    IF ~IsSeries(ip_addresses)
    THEN [dict |-> d, outcome |-> "AttributeError", frame |-> NoFrame,
          calls |-> <<>>]
    ELSE IF IsEmptyInput(ip_addresses)
    THEN [dict |-> d, outcome |-> Returned,
          frame |-> [columns |-> <<"org", "country">>, rows |-> <<>>],
          calls |-> <<>>]
    \* to_frame is a method of Series only
    ELSE IF ip_addresses.kind # "Series"
    THEN [dict |-> d, outcome |-> "AttributeError", frame |-> NoFrame,
          calls |-> <<>>]
    ELSE LET unique_addresses == unique(ip_addresses.items)
             acc == resolve_unique(
                      [dict |-> d, outcome |-> Returned, rows |-> <<>>,
                       calls |-> <<>>],
                      unique_addresses, responses)
         IN  IF acc.outcome # Returned
             THEN [dict |-> acc.dict, outcome |-> acc.outcome,
                   frame |-> NoFrame, calls |-> acc.calls]
             ELSE [dict |-> acc.dict, outcome |-> Returned,
                   frame |-> [columns |-> <<"ip", "org", "country">>,
                              rows |-> merge_left(ip_addresses.items, acc.rows)],
                   calls |-> acc.calls]

\* clear
clear_nothing(d) == d
clear(d) == EmptyDict

\* the length of the longest value of the dictionary
RECURSIVE MaxWidth(_)
MaxWidth(items) ==
    IF items = <<>> THEN 0
    ELSE LET w == Len(Head(items)[2].elems)
             rest == MaxWidth(Tail(items))
         IN  IF w > rest THEN w ELSE rest

\* a value as a row of two cells; a shorter value is padded with None
Cell(elems, i) == IF i <= Len(elems) THEN elems[i] ELSE None

\* to_data_frame: how the call ended and the frame it returned
to_data_frame_country_first(d) ==
    [outcome |-> IF Len(d.items) # 0 /\ MaxWidth(d.items) # 2
                 THEN "ValueError" ELSE Returned,
     frame |-> IF Len(d.items) # 0 /\ MaxWidth(d.items) # 2 THEN NoFrame
               ELSE [columns |-> <<"ip", "country", "org">>,
                     rows |-> [i \in 1..Len(d.items) |->
                                <<d.items[i][1], Cell(d.items[i][2].elems, 1),
                                  Cell(d.items[i][2].elems, 2)>>]]]
to_data_frame(d) ==
    IF Len(d.items) = 0
    THEN [outcome |-> Returned,
          frame |-> [columns |-> <<"ip", "org", "country">>, rows |-> <<>>]]
    \* from_dict(orient='index', columns=["org", "country"]): the rows are
    \* the values, in the order of the keys, and must be two cells wide
    ELSE IF MaxWidth(d.items) # 2
    THEN [outcome |-> "ValueError", frame |-> NoFrame]
    \* index.name = "ip"; reset_index puts the keys in front
    ELSE [outcome |-> Returned,
          frame |-> [columns |-> <<"ip", "org", "country">>,
                     rows |-> [i \in 1..Len(d.items) |->
                                <<d.items[i][1], Cell(d.items[i][2].elems, 1),
                                  Cell(d.items[i][2].elems, 2)>>]]]

-----------------------------------------------------------------------------
(* The calls a program makes on a cache *)

Str(x) == [kind |-> "str", items |-> <<x>>]
NoArg == [kind |-> "NoneType", items |-> <<>>]

\* what a caller may hand to match_ip_infos: a Series of ip strings, a single
\* string, None, or a plain list
MatchArguments ==
    {[kind |-> "Series", items |-> s] : s \in SeqsUpTo(IpAddresses, MaxSeries)}
        \cup {Str(ip) : ip \in IpAddresses}
        \cup {NoArg}
        \cup {[kind |-> "list", items |-> <<ip>>] : ip \in IpAddresses}

\* no resolver call observed, no script running
NotResolved == [ip_address |-> None, response |-> Response(TRUE, 0, Absent, Absent),
                outcome |-> "none", value |-> <<>>, requested |-> FALSE]
NotStarted == [pc |-> "none"]
\* no call of is_private_ip observed, no window constructed
NotChecked == [pc |-> "none"]
NoWindow == [pc |-> "none"]
\* the calls and requests of a cache are not being counted
NotCounting == [on |-> FALSE, calls |-> 0, asked |-> {}]

Call(op, self, arg, outcome, result, frame, calls) ==
    [op |-> op, self |-> self, arg |-> arg, outcome |-> outcome,
     result |-> result, frame |-> frame, calls |-> calls,
     before |-> caches[self], file_before |-> file]

Init ==
    /\ caches = [i \in Instances |-> EmptyDict]
    /\ file \in ExternalFiles
    /\ last = [op |-> "__init__", self |-> "cache", arg |-> NoArg,
               outcome |-> Returned, result |-> NoResult, frame |-> NoFrame,
               calls |-> <<>>, before |-> EmptyDict, file_before |-> file]
    /\ resolved = NotResolved
    /\ script = NotStarted
    /\ private = NotChecked
    /\ window = NoWindow
    /\ since = NotCounting

LoadFromJson(self) ==
    LET l == load_from_json(caches[self], file)
    IN  /\ caches' = [caches EXCEPT ![self] = l.dict]
        /\ last' = Call("load_from_json", self, NoArg, l.outcome, NoResult,
                        NoFrame, <<>>)
        /\ UNCHANGED <<file, resolved, script, private, window, since>>

SaveToJson(self) ==
    /\ file' = save_to_json(caches[self])
    /\ last' = Call("save_to_json", self, NoArg, Returned, NoResult, NoFrame,
                    <<>>)
    /\ UNCHANGED <<caches, resolved, script, private, window, since>>

\* the most resolver calls counted since a cache was empty
MaxCalls == 4

\* the count of the resolver calls a call made and of the addresses it was
\* asked for, kept when the calls of a cache are counted
Count(calls, asked) ==
    IF since.on
    THEN /\ since.calls + Len(calls) <= MaxCalls
         /\ since' = [since EXCEPT !.calls = @ + Len(calls),
                                   !.asked = @ \cup asked]
    ELSE UNCHANGED since

GetIpInfos(self) ==
    \E ip \in IpAddresses, response \in Responses :
    \E g \in {cache_get_ip_infos(caches[self], ip, response)} :
        /\ caches' = [caches EXCEPT ![self] = g.dict]
        /\ last' = Call("get_ip_infos", self, Str(ip), g.outcome, g.result,
                        NoFrame, g.calls)
        /\ Count(g.calls, {ip})
        /\ UNCHANGED <<file, resolved, script, private, window>>

\* the addresses a call of match_ip_infos can ask the resolver about
Uncached(d, ip_addresses) ==
    {ip \in IpAddresses :
        /\ \E i \in 1..Len(ip_addresses.items) : ip_addresses.items[i] = ip
        /\ ~Contains(d, ip)}

MatchIpInfos(self) ==
    \E ip_addresses \in MatchArguments :
    \E responses \in [Uncached(caches[self], ip_addresses) -> Responses] :
    \E m \in {match_ip_infos(caches[self], ip_addresses, responses)} :
        /\ caches' = [caches EXCEPT ![self] = m.dict]
        /\ last' = Call("match_ip_infos", self, ip_addresses, m.outcome,
                        NoResult, m.frame, m.calls)
        /\ Count(m.calls,
                 IF IsSeries(ip_addresses)
                 THEN {ip_addresses.items[i] : i \in 1..Len(ip_addresses.items)}
                 ELSE {})
        /\ UNCHANGED <<file, resolved, script, private, window>>

Clear(self) ==
    /\ caches' = [caches EXCEPT ![self] = clear(caches[self])]
    /\ last' = Call("clear", self, NoArg, Returned, NoResult, NoFrame, <<>>)
    /\ since' = [since EXCEPT !.calls = 0, !.asked = {}]
    /\ UNCHANGED <<file, resolved, script, private, window>>

ToDataFrame(self) ==
    LET t == to_data_frame(caches[self])
    IN  /\ last' = Call("to_data_frame", self, NoArg, t.outcome, NoResult,
                        t.frame, <<>>)
        /\ UNCHANGED <<caches, file, resolved, script, private, window, since>>

\* the methods class IpInfoCache defines
IpInfoCacheMethods ==
    {"__init__", "load_from_json", "save_to_json", "get_ip_infos",
     "match_ip_infos", "to_data_frame", "clear"}

\* attribute lookup on an IpInfoCache object: a name the class does not
\* define raises AttributeError
getattr(name) ==
    IF name \in IpInfoCacheMethods THEN Returned ELSE "AttributeError"

\* cache_copy = self.copy(): the lookup of copy fails, nothing is bound
Copy(self) ==
    /\ getattr("copy") = "AttributeError"
    /\ last' = Call("copy", self, NoArg, getattr("copy"), NoResult, NoFrame,
                    <<>>)
    /\ UNCHANGED <<caches, file, resolved, script, private, window, since>>

\* one cache, driven through every method
Next ==
    \/ LoadFromJson("cache")
    \/ SaveToJson("cache")
    \/ GetIpInfos("cache")
    \/ MatchIpInfos("cache")
    \/ Clear("cache")

Spec == Init /\ [][Next]_vars

\* the program's cache is filled, loaded and saved; a second, fresh cache
\* loads the file
NextRoundTrip ==
    \/ GetIpInfos("cache")
    \/ LoadFromJson("cache")
    \/ SaveToJson("cache")
    \/ LoadFromJson("new_cache")

SpecRoundTrip == Init /\ [][NextRoundTrip]_vars

\* a cache that starts empty and never loads a file, its resolver calls and
\* the addresses it is asked for being counted
InitNoLoad ==
    /\ caches = [i \in Instances |-> EmptyDict]
    /\ file = Missing
    /\ last = [op |-> "__init__", self |-> "cache", arg |-> NoArg,
               outcome |-> Returned, result |-> NoResult, frame |-> NoFrame,
               calls |-> <<>>, before |-> EmptyDict, file_before |-> Missing]
    /\ resolved = NotResolved
    /\ script = NotStarted
    /\ private = NotChecked
    /\ window = NoWindow
    /\ since = [on |-> TRUE, calls |-> 0, asked |-> {}]

NextNoLoad ==
    \/ GetIpInfos("cache")
    \/ MatchIpInfos("cache")
    \/ Clear("cache")

SpecNoLoad == InitNoLoad /\ [][NextNoLoad]_vars

\* the resolver alone: every address, every answer of the service
ResolverAddresses == IpAddresses \cup {None, ""}

ResolverResponses ==
    {Response(fails, status, org, country) :
        fails \in BOOLEAN, status \in {200, 404, 500},
        org \in {Absent, "Google LLC", "Microsoft"}, country \in {Absent, "US"}}

InitResolver ==
    /\ caches = [i \in Instances |-> EmptyDict]
    /\ file = Missing
    /\ last = [op |-> "__init__", self |-> "cache", arg |-> NoArg,
               outcome |-> Returned, result |-> NoResult, frame |-> NoFrame,
               calls |-> <<>>, before |-> EmptyDict, file_before |-> Missing]
    /\ resolved = NotResolved
    /\ script = NotStarted
    /\ private = NotChecked
    /\ window = NoWindow
    /\ since = NotCounting

Resolve ==
    \E ip_address \in ResolverAddresses, response \in ResolverResponses :
        LET r == get_ip_infos(ip_address, response)
        IN  /\ resolved' = [ip_address |-> ip_address, response |-> response,
                            outcome |-> r.outcome, value |-> r.value,
                            requested |-> r.requested]
            /\ UNCHANGED <<caches, file, last, script, private, window, since>>

SpecResolver == InitResolver /\ [][Resolve]_vars

\* a cache is filled, loaded and cleared and shown as a table
NextTable ==
    \/ GetIpInfos("cache")
    \/ LoadFromJson("cache")
    \/ Clear("cache")
    \/ ToDataFrame("cache")

SpecTable == Init /\ [][NextTable]_vars

-----------------------------------------------------------------------------
(* capture_connections.py: the initial capture, the scheduled job and the  *)
(* loop of _main. Time is counted in seconds from the start of the script. *)

DEFAULT_EVERY_SECONDS == 30
DEFAULT_OVER_MINUTES == -1

\* the latest time the clock of a run may show
MaxTime == 130
\* the longest a capture takes, and the longest a sleep or the step from
\* do() to until() overshoots, in seconds
MaxDelay == 1

\* the values of the options --e and --o
EverySeconds == {DEFAULT_EVERY_SECONDS, 45, 90}
OverMinutes == {DEFAULT_OVER_MINUTES, 0, 1}

Delays == 0..MaxDelay

\* timedelta(minutes=over_minutes), in seconds
timedelta_minutes(minutes) == minutes * 60

\* schedule.Job._is_overdue(when)
never_overdue(job, when) == FALSE
is_overdue(job, when) == job.has_until /\ when > job.cancel_after

\* schedule.Job.should_run
should_run(job) == job.now >= job.next_run

\* the most snapshots of the machine's connections that differ in a run
MaxSnapshots == 3

\* commons._CONNECTION_COLUMNS
CONNECTION_COLUMNS ==
    <<"timestamp", "ip_address", "port", "ip_private", "pid", "status">>

\* get_connection_snapshot: the rows of a snapshot, each given by its
\* ip_private: no connection, a public one, a private one, or both
ConnectionSnapshots == {<<>>, <<FALSE>>, <<TRUE>>, <<FALSE, TRUE>>}

\* the snapshot the n-th capture of a run takes
Snapshot(s, n) ==
    s.snapshots[IF n <= Len(s.snapshots) THEN n ELSE Len(s.snapshots)]

\* con_frame before it is written: private rows are dropped unless
\* include_privates, the column process is added for look_up_processes, and
\* ip_org and ip_country for look_up_ips when there is a row
con_frame(s, n) ==
    LET rows == IF s.include_privates THEN Snapshot(s, n)
                ELSE SelectSeq(Snapshot(s, n), LAMBDA ip_private : ~ip_private)
    IN  [columns |-> CONNECTION_COLUMNS
                        \o (IF s.look_up_processes THEN <<"process">> ELSE <<>>)
                        \o (IF s.look_up_ips /\ Len(rows) > 0
                            THEN <<"ip_org", "ip_country">> ELSE <<>>),
         rows |-> rows]

\* mode_flag = "w" if write_mode else "a"
mode_always_w(write_mode) == "w"
mode_flag(write_mode) == IF write_mode THEN "w" ELSE "a"

\* DataFrame.to_csv(file_name, mode=mode, index=False, header=header): the
\* lines of the file afterwards; n is the capture that writes
to_csv(csv, frame, n, mode, header) ==
    LET lines ==
            (IF header
             THEN << [kind |-> "header", columns |-> frame.columns,
                      capture |-> n, ip_private |-> FALSE] >>
             ELSE <<>>)
            \o [i \in 1..Len(frame.rows) |->
                    [kind |-> "row", columns |-> frame.columns,
                     capture |-> n, ip_private |-> frame.rows[i]]]
    IN  IF mode = "w" THEN lines ELSE csv \o lines

\* _capture_connections: the lines of the file after the n-th capture
capture_connections(s, n, write_mode) ==
    to_csv(s.csv, con_frame(s, n), n, mode_flag(write_mode), write_mode)

InitCapture ==
    /\ caches = [i \in Instances |-> EmptyDict]
    /\ file = Missing
    /\ last = [op |-> "__init__", self |-> "cache", arg |-> NoArg,
               outcome |-> Returned, result |-> NoResult, frame |-> NoFrame,
               calls |-> <<>>, before |-> EmptyDict, file_before |-> Missing]
    /\ resolved = NotResolved
    /\ private = NotChecked
    /\ window = NoWindow
    /\ since = NotCounting
    /\ \E e \in EverySeconds, o \in OverMinutes :
            script = [pc |-> "start", every_seconds |-> e, over_minutes |-> o,
                      now |-> 0, jobs |-> 0, next_run |-> 0,
                      has_until |-> FALSE, cancel_after |-> 0,
                      captures |-> 0, due |-> 0, captured_at |-> 0,
                      include_privates |-> FALSE,
                      look_up_processes |-> FALSE, look_up_ips |-> FALSE,
                      snapshots |-> << <<FALSE>> >>, csv |-> <<>>]

\* _capture_connections(..., write_mode=True)
InitialCapture ==
    /\ script.pc = "start"
    /\ \E d \in Delays :
            script' = [script EXCEPT
                        !.pc = "schedule", !.now = @ + d, !.captures = 1,
                        !.csv = capture_connections(script, 1, TRUE)]
    /\ UNCHANGED <<caches, file, last, resolved, private, window, since>>

\* schedule.every(every_seconds).seconds.do(...) and, for over_minutes > 0,
\* capture.until(timedelta(minutes=over_minutes))
ScheduleJob ==
    /\ script.pc = "schedule"
    /\ \E d \in Delays :
            script' =
                IF script.over_minutes > 0
                THEN [script EXCEPT
                        !.pc = "idle", !.jobs = 1,
                        !.next_run = script.now + script.every_seconds,
                        !.now = @ + d, !.has_until = TRUE,
                        !.cancel_after = script.now + d
                            + timedelta_minutes(script.over_minutes)]
                ELSE [script EXCEPT
                        !.pc = "idle", !.jobs = 1,
                        !.next_run = script.now + script.every_seconds]
    /\ UNCHANGED <<caches, file, last, resolved, private, window, since>>

\* the head of the loop: idle_seconds(), break when no job is left, else
\* sleep until the job is due
Idle ==
    /\ script.pc = "idle"
    /\ IF script.jobs = 0
       THEN script' = [script EXCEPT !.pc = "done"]
       ELSE \E d \in Delays :
                LET idle_secs == script.next_run - script.now
                    woken == IF idle_secs > 0 THEN script.now + idle_secs + d
                             ELSE script.now
                IN  /\ woken <= MaxTime
                    /\ script' = [script EXCEPT !.pc = "run_pending",
                                                !.now = woken]
    /\ UNCHANGED <<caches, file, last, resolved, private, window, since>>

\* schedule.run_pending(): Job.run of the due job, which is cancelled
\* without running when it is overdue, and cancelled after running when its
\* next run would be overdue
RunPending ==
    /\ script.pc = "run_pending"
    /\ IF ~should_run(script)
       THEN script' = [script EXCEPT !.pc = "idle"]
       ELSE IF is_overdue(script, script.now)
       THEN script' = [script EXCEPT !.pc = "idle", !.jobs = 0]
       ELSE \E d \in Delays :
                LET finished == script.now + d
                    next_run == finished + script.every_seconds
                IN  /\ finished <= MaxTime
                    /\ script' = [script EXCEPT
                            !.pc = "idle", !.now = finished,
                            !.captures = @ + 1,
                            !.csv = capture_connections(
                                        script, script.captures + 1, FALSE),
                            !.due = script.next_run,
                            !.captured_at = script.now,
                            !.next_run = next_run,
                            !.jobs = IF is_overdue(script, next_run)
                                     THEN 0 ELSE 1]
    /\ UNCHANGED <<caches, file, last, resolved, private, window, since>>

NextCapture ==
    \/ InitialCapture
    \/ ScheduleJob
    \/ Idle
    \/ RunPending

\* the script is one sequential process that keeps running
SpecCapture == InitCapture /\ [][NextCapture]_vars /\ WF_vars(NextCapture)

\* what the file of a run holds before the script starts: nothing, or the
\* lines of an earlier run
EarlierLines ==
    << [kind |-> "header", columns |-> CONNECTION_COLUMNS, capture |-> 0,
        ip_private |-> FALSE],
       [kind |-> "row", columns |-> CONNECTION_COLUMNS, capture |-> 0,
        ip_private |-> FALSE] >>

\* runs over one minute with every combination of the options l, p and i
\* and every course of the machine's connections
InitCaptureFile ==
    /\ caches = [i \in Instances |-> EmptyDict]
    /\ file = Missing
    /\ last = [op |-> "__init__", self |-> "cache", arg |-> NoArg,
               outcome |-> Returned, result |-> NoResult, frame |-> NoFrame,
               calls |-> <<>>, before |-> EmptyDict, file_before |-> Missing]
    /\ resolved = NotResolved
    /\ private = NotChecked
    /\ window = NoWindow
    /\ since = NotCounting
    /\ \E l \in BOOLEAN, p \in BOOLEAN, i \in BOOLEAN,
          snapshots \in [1..MaxSnapshots -> ConnectionSnapshots],
          csv \in {<<>>, EarlierLines} :
            script = [pc |-> "start",
                      every_seconds |-> DEFAULT_EVERY_SECONDS,
                      over_minutes |-> 1,
                      now |-> 0, jobs |-> 0, next_run |-> 0,
                      has_until |-> FALSE, cancel_after |-> 0,
                      captures |-> 0, due |-> 0, captured_at |-> 0,
                      include_privates |-> l,
                      look_up_processes |-> p, look_up_ips |-> i,
                      snapshots |-> snapshots, csv |-> csv]

SpecCaptureFile == InitCaptureFile /\ [][NextCapture]_vars

\* a caller fills and clears its cache and asks it for a copy
NextCopy ==
    \/ GetIpInfos("cache")
    \/ LoadFromJson("cache")
    \/ Clear("cache")
    \/ Copy("cache")

SpecCopy == Init /\ [][NextCopy]_vars

-----------------------------------------------------------------------------
(* ui.NetmonitorWindow: its connections, its check boxes, its cache (the    *)
(* instance cache) and the handlers that run _update_component.             *)

\* the most connections a machine has when the window loads them
MaxConnections == 2

\* the remote addresses of the machine's connections: '' is what the window
\* shows for a connection without a remote address
RemoteAddresses == {"172.217.0.0", ""}

\* the remote addresses from the greatest string to the least
Descending == <<"172.217.0.0", "">>

Position(rip) == CHOOSE i \in 1..Len(Descending) : Descending[i] = rip

\* _load_connections: the rows of core.get_connections as strings, sorted by
\* rip in descending order; rpriv tells whether rip is one of private_ips
load_connections(private_ips) ==
    { [i \in 1..Len(rips) |->
            [rip |-> rips[i],
             rpriv |-> IF rips[i] \in private_ips THEN "True" ELSE "False"]] :
        rips \in {r \in SeqsUpTo(RemoteAddresses, MaxConnections) :
                    \A i, j \in 1..Len(r) :
                        i < j => Position(r[i]) <= Position(r[j])} }

\* every connections frame core.get_connections can give; for the frame
\* without rows the column date has no datetime values, and its .dt raises
loaded(connections) ==
    IF connections = <<>> THEN "AttributeError" ELSE Returned

LoadedConnections ==
    UNION {load_connections(private_ips) :
            private_ips \in SUBSET (RemoteAddresses \ {""})}

\* the check boxes _update_component reads to filter and to look up; the
\* fourth, local_checkbox, only hides columns
Checkboxes == {"non_remote_checkbox", "private_checkbox", "ip_infos_checkbox"}

\* filtered_connections["rip"] after the filters of _update_component
filtered_rips(w) ==
    LET shown(row) ==
            /\ w.non_remote_checkbox \/ row.rip # ""
            /\ w.private_checkbox \/ row.rpriv = "False"
        rows == SelectSeq(w.connections, shown)
    IN  [kind |-> "Series", items |-> [i \in 1..Len(rows) |-> rows[i].rip]]

\* the addresses of a Series the cache does not hold
NotCached(d, ip_addresses) ==
    {ip \in {ip_addresses.items[i] : i \in 1..Len(ip_addresses.items)} :
        ~Contains(d, ip)}

\* _update_component: the new dictionary and file, how the run ended and the
\* resolver calls it made
\* the ip infos branch once match_ip_infos has ended as m: the columns are
\* filled and the cache is saved, unless m raised
not_saving(m, f) ==
    [dict |-> m.dict, file |-> f, outcome |-> m.outcome, calls |-> m.calls]
save_matched(m, f) ==
    [dict |-> m.dict,
     file |-> IF m.outcome = Returned THEN save_to_json(m.dict) ELSE f,
     outcome |-> m.outcome, calls |-> m.calls]

update_component(d, f, w, responses) ==
    IF w.ip_infos_checkbox
    THEN save_matched(match_ip_infos(d, filtered_rips(w), responses), f)
    ELSE [dict |-> d, file |-> f, outcome |-> Returned, calls |-> <<>>]

InitWindow ==
    /\ caches = [i \in Instances |-> EmptyDict]
    /\ file \in ExternalFiles
    /\ last = [op |-> "__init__", self |-> "cache", arg |-> NoArg,
               outcome |-> Returned, result |-> NoResult, frame |-> NoFrame,
               calls |-> <<>>, before |-> EmptyDict, file_before |-> file]
    /\ resolved = NotResolved
    /\ script = NotStarted
    /\ private = NotChecked
    /\ since = NotCounting
    /\ window = [pc |-> "start", connections |-> <<>>,
                 non_remote_checkbox |-> FALSE, private_checkbox |-> FALSE,
                 ip_infos_checkbox |-> FALSE]

\* the run of _update_component that ends a handler of the window w
UpdateComponent(w) ==
    \E responses \in [NotCached(caches["cache"], filtered_rips(w)) -> Responses] :
    \E u \in {update_component(caches["cache"], file, w, responses)} :
            /\ window' = w
            /\ caches' = [caches EXCEPT !["cache"] = u.dict]
            /\ file' = u.file
            /\ last' = Call("_update_component", "cache", filtered_rips(w),
                            u.outcome, NoResult, NoFrame, u.calls)

\* NetmonitorWindow.__init__: the cache is loaded, which only a
\* FileExistsError may fail, the connections are loaded and shown
ConstructWindow ==
    /\ window.pc = "start"
    /\ LET l == load_from_json(caches["cache"], file)
       IN  IF l.outcome # Returned
           THEN /\ window' = [window EXCEPT !.pc = "failed"]
                /\ last' = Call("load_from_json", "cache", NoArg, l.outcome,
                                NoResult, NoFrame, <<>>)
                /\ UNCHANGED <<caches, file>>
           ELSE \E connections \in LoadedConnections :
                    /\ caches' = [caches EXCEPT !["cache"] = l.dict]
                    /\ UNCHANGED file
                    /\ IF loaded(connections) # Returned
                       THEN /\ window' = [window EXCEPT !.pc = "failed"]
                            /\ last' = [Call("_load_connections", "cache",
                                             NoArg, loaded(connections),
                                             NoResult, NoFrame, <<>>)
                                            EXCEPT !.before = l.dict]
                       ELSE /\ window' = [window EXCEPT
                                            !.pc = "shown",
                                            !.connections = connections]
                            /\ last' = [Call("_update_component", "cache",
                                             filtered_rips(window'), Returned,
                                             NoResult, NoFrame, <<>>)
                                            EXCEPT !.before = l.dict]
    /\ UNCHANGED <<resolved, script, private, since>>

\* _refresh_button_clicked
RefreshButtonClicked ==
    /\ window.pc = "shown"
    /\ \E connections \in LoadedConnections :
            IF loaded(connections) # Returned
            THEN /\ window' = [window EXCEPT !.connections = connections]
                 /\ last' = Call("_load_connections", "cache", NoArg,
                                 loaded(connections), NoResult, NoFrame, <<>>)
                 /\ UNCHANGED <<caches, file>>
            ELSE UpdateComponent([window EXCEPT !.connections = connections])
    /\ UNCHANGED <<resolved, script, private, since>>

\* _local_toggled: the same connections are shown again
LocalToggled ==
    /\ window.pc = "shown"
    /\ UpdateComponent([window EXCEPT !.pc = "shown"])
    /\ UNCHANGED <<resolved, script, private, since>>

\* _non_remote_toggled, _private_toggled, _ip_infos_toggled
CheckboxToggled ==
    /\ window.pc = "shown"
    /\ \E box \in Checkboxes :
            UpdateComponent([window EXCEPT ![box] = ~@])
    /\ UNCHANGED <<resolved, script, private, since>>

\* _show_cache_dialog: cache_copy = self.ip_cache.copy() fails in the
\* attribute lookup, before a dialog exists
ShowCacheDialog ==
    /\ window.pc = "shown"
    /\ getattr("copy") = "AttributeError"
    /\ last' = Call("_show_cache_dialog", "cache", NoArg, getattr("copy"),
                    NoResult, NoFrame, <<>>)
    /\ UNCHANGED <<caches, file, window, resolved, script, private, since>>

NextWindow ==
    \/ ConstructWindow
    \/ RefreshButtonClicked
    \/ CheckboxToggled
    \/ LocalToggled
    \/ ShowCacheDialog

SpecWindow == InitWindow /\ [][NextWindow]_vars

-----------------------------------------------------------------------------
(* core.is_private_ip and core.get_private_ips. The substring test looks    *)
(* into the strings, so here a string is the sequence of its characters.    *)

\* the longest ip address handed to is_private_ip
MaxIp == 3
\* the longest address of private_ips
MaxPrivateIp == 2

Chars == {"0", "1", ":"}

Text(chars) == [kind |-> "str", chars |-> chars]
NoText == [kind |-> "NoneType", chars |-> <<>>]

\* l in ip_address, for two strings
is_equal(l, ip_address) == l = ip_address
is_in(l, ip_address) ==
    \E i \in 0..(Len(ip_address) - Len(l)) :
        SubSeq(ip_address, i + 1, i + Len(l)) = l

\* 127.0.0.1, 10.0.0.0 and 0.0.0.1
DefaultPrivateIps ==
    { <<"1", "2", "7", ".", "0", ".", "0", ".", "1">>,
      <<"1", "0", ".", "0", ".", "0", ".", "0">>,
      <<"0", ".", "0", ".", "0", ".", "1">> }

\* get_private_ips: the output addresses of the routes scapy reads, or the
\* defaults when there are none
get_private_ips(routes) == IF routes = {} THEN DefaultPrivateIps ELSE routes

\* is_private_ip: what it returns and the private addresses it compared with
is_private_ip(ip_address, private_ips, routes) ==
    IF ip_address.kind = "NoneType"
    THEN [result |-> FALSE, used |-> private_ips.elems]
    ELSE LET used == IF private_ips.kind = "NoneType"
                     THEN get_private_ips(routes) ELSE private_ips.elems
         IN  [result |-> \E l \in used : is_in(l, ip_address.chars),
              used |-> used]

\* the addresses a machine's routes, or a caller, name as private
PrivateStrings == SeqsUpTo(Chars, MaxPrivateIp) \ {<<>>}
PrivateSets == {{}} \cup {{a, b} : a, b \in PrivateStrings}

InitPrivate ==
    /\ caches = [i \in Instances |-> EmptyDict]
    /\ file = Missing
    /\ last = [op |-> "__init__", self |-> "cache", arg |-> NoArg,
               outcome |-> Returned, result |-> NoResult, frame |-> NoFrame,
               calls |-> <<>>, before |-> EmptyDict, file_before |-> Missing]
    /\ resolved = NotResolved
    /\ script = NotStarted
    /\ window = NoWindow
    /\ since = NotCounting
    /\ \E ip_address \in {NoText} \cup {Text(c) : c \in SeqsUpTo(Chars, MaxIp)},
          private_ips \in {[kind |-> "NoneType", elems |-> {}]}
                            \cup {[kind |-> "set", elems |-> S] : S \in PrivateSets} :
            private = [pc |-> "call", ip_address |-> ip_address,
                       private_ips |-> private_ips, used |-> {},
                       result |-> FALSE]

\* sc.read_routes(), read only when no private addresses were handed in
ReadRoutes(private_ips) ==
    IF private_ips.kind = "NoneType" THEN PrivateSets ELSE {{}}

IsPrivateIp ==
    /\ private.pc = "call"
    /\ \E routes \in ReadRoutes(private.private_ips) :
            LET r == is_private_ip(private.ip_address, private.private_ips,
                                   routes)
            IN  private' = [private EXCEPT !.pc = "returned",
                                           !.result = r.result,
                                           !.used = r.used]
    /\ UNCHANGED <<caches, file, last, resolved, script, window, since>>

SpecPrivate == InitPrivate /\ [][IsPrivateIp]_vars

-----------------------------------------------------------------------------
(* Properties *)

\* the dictionary of the instance the last call was made on, after the call
Now == caches[last.self]

HasKey(d, key) == d.type = "dict" /\ key \in Keys(d)

Elems(s) == {s[i] : i \in 1..Len(s)}

NoRepeats(s) == \A i, j \in 1..Len(s) : s[i] = s[j] => i = j

Unknown == Tuple(<<None, None>>)

\* C1: a get_ip_infos(ip) that misses the cache and returns has called the
\* resolver exactly once, for ip, and stored what it returned; an entry stays
\* as stored through every call other than clear and load_from_json; and a
\* get_ip_infos(ip) on a cached ip returns the stored value and makes no
\* resolver call, whatever the resolver would answer now.
C1_CachedAnswerIsReused ==
    [][\A ip \in IpAddresses :
        LET d == caches["cache"]
            d2 == caches'["cache"]
            get == last'.op = "get_ip_infos" /\ last'.arg = Str(ip)
        IN  /\ (get /\ last'.outcome = Returned /\ ~HasKey(d, ip))
                => /\ last'.calls = <<ip>>
                   /\ HasKey(d2, ip)
                   /\ GetItem(d2, ip) = last'.result
            /\ HasKey(d, ip)
                => /\ last'.op \notin {"clear", "load_from_json"}
                        => HasKey(d2, ip) /\ GetItem(d2, ip) = GetItem(d, ip)
                   /\ get => /\ last'.outcome = Returned
                             /\ last'.result = GetItem(d, ip)
                             /\ last'.calls = <<>>
                             /\ d2 = d
      ]_vars

\* C1 witness: a lookup of an ip the resolver answered earlier is served from
\* the cache.
C1_Witness ==
    /\ last.op = "get_ip_infos"
    /\ last.outcome = Returned
    /\ last.calls = <<>>
    /\ last.result = Tuple(<<"Google LLC", "US">>)

\* C2: when get_ip_infos(ip) asks the resolver and gets (None, None), the
\* cache afterwards holds ip with the value (None, None) and has one entry
\* more than before; a get_ip_infos on an ip cached as (None, None) makes no
\* resolver call.
C2_UnknownIsCached ==
    (last.op = "get_ip_infos" /\ last.outcome = Returned)
        => LET ip == last.arg.items[1]
           IN  /\ (last.calls # <<>> /\ last.result = Unknown)
                    => /\ HasKey(Now, ip)
                       /\ GetItem(Now, ip) = Unknown
                       /\ Len(Now.items) = Len(last.before.items) + 1
               /\ (HasKey(last.before, ip)
                        /\ GetItem(last.before, ip).elems = <<None, None>>)
                    => last.calls = <<>>

\* C2 witness: the resolver answered (None, None) for a second ip.
C2_Witness ==
    /\ last.op = "get_ip_infos"
    /\ last.calls # <<>>
    /\ last.result = Unknown
    /\ Len(Now.items) = 2

\* a match_ip_infos call on a Series that returned
MatchReturned ==
    /\ last.op = "match_ip_infos"
    /\ last.arg.kind = "Series"
    /\ last.outcome = Returned

\* C3: the frame match_ip_infos returns for a non-empty Series has one row
\* per element, in the order of the Series, duplicates included: row i holds
\* ips[i] and the org and country the cache holds for ips[i], which for an ip
\* cached before the call are the ones cached before.
C3_MatchPreservesOrder ==
    (MatchReturned /\ last.arg.items # <<>>)
        => LET ips == last.arg.items
               rows == last.frame.rows
           IN  /\ last.frame.columns = <<"ip", "org", "country">>
               /\ Len(rows) = Len(ips)
               /\ \A i \in 1..Len(ips) :
                    /\ i <= Len(rows)
                    /\ rows[i][1] = ips[i]
                    /\ HasKey(Now, ips[i])
                    /\ <<rows[i][2], rows[i][3]>> = GetItem(Now, ips[i]).elems
                    /\ HasKey(last.before, ips[i])
                        => GetItem(Now, ips[i]) = GetItem(last.before, ips[i])

\* C3 witness: a Series a, a, b whose two addresses have different infos.
C3_Witness ==
    /\ MatchReturned
    /\ Len(last.arg.items) = 3
    /\ last.arg.items[1] = last.arg.items[2]
    /\ last.arg.items[2] # last.arg.items[3]
    /\ Len(last.frame.rows) = 3
    /\ last.frame.rows[2][2] # last.frame.rows[3][2]

\* C4: a match_ip_infos call that returns has called the resolver once for
\* each distinct ip of the Series that was not cached, and for no other ip;
\* afterwards every ip of the Series is a key of the cache.
C4_OneCallPerDistinctUncached ==
    MatchReturned
        => /\ NoRepeats(last.calls)
           /\ Elems(last.calls)
                = {ip \in Elems(last.arg.items) : ~HasKey(last.before, ip)}
           /\ \A ip \in Elems(last.arg.items) : HasKey(Now, ip)

\* C4 witness: a Series of three with both addresses, one of them cached,
\* costs one resolver call.
C4_Witness ==
    /\ MatchReturned
    /\ Len(last.arg.items) = 3
    /\ Elems(last.arg.items) = IpAddresses
    /\ Len(last.calls) = 1
    /\ Len(last.before.items) = 1

\* C5: match_ip_infos on an empty Series returns a frame without rows, makes
\* no resolver call and leaves the dictionary as it was.
C5_EmptyMatch ==
    (last.op = "match_ip_infos" /\ last.arg.kind = "Series"
            /\ last.arg.items = <<>>)
        => /\ last.outcome = Returned
           /\ last.frame.rows = <<>>
           /\ last.calls = <<>>
           /\ Now = last.before

\* C5 witness: an empty Series matched against a cache with two entries.
C5_Witness ==
    /\ last.op = "match_ip_infos"
    /\ last.arg.kind = "Series"
    /\ last.arg.items = <<>>
    /\ last.outcome = Returned
    /\ Len(Now.items) = 2

\* C6: the frame match_ip_infos returns for an empty Series has the columns
\* ip, org, country of the frame it returns for a non-empty Series.
C6_EmptyMatchShape ==
    (MatchReturned /\ last.arg.items = <<>>)
        => last.frame.columns = <<"ip", "org", "country">>

\* C7: match_ip_infos with a single string or None fails with AttributeError,
\* makes no resolver call and leaves the dictionary as it was.
C7_MatchRejectsNonSeries ==
    (last.op = "match_ip_infos" /\ last.arg.kind \in {"str", "NoneType"})
        => /\ last.outcome = "AttributeError"
           /\ last.calls = <<>>
           /\ Now = last.before

\* C7 witness: None was rejected by a cache that holds an entry.
C7_Witness ==
    /\ last.op = "match_ip_infos"
    /\ last.arg.kind = "NoneType"
    /\ last.outcome = "AttributeError"
    /\ Now.items # <<>>

\* C8: when a fresh cache loads the file the program's non-empty cache was
\* saved to, it holds the same keys and, for each key, an entry equal to the
\* original's.
C8_RoundTrip ==
    (/\ last.op = "load_from_json"
     /\ last.self = "new_cache"
     /\ last.outcome = Returned
     /\ caches["cache"].type = "dict"
     /\ caches["cache"].items # <<>>
     /\ last.file_before = save_to_json(caches["cache"]))
        => /\ Keys(caches["new_cache"]) = Keys(caches["cache"])
           /\ \A ip \in Keys(caches["cache"]) :
                GetItem(caches["new_cache"], ip) = GetItem(caches["cache"], ip)

\* C9: load_from_json on a missing file, or on a file whose content is not
\* valid JSON, does not raise and leaves the cache empty.
C9_LoadSwallowsBadFile ==
    (last.op = "load_from_json" /\ last.file_before.kind # "json")
        => /\ last.outcome = Returned
           /\ Now = EmptyDict

\* the keys of a JSON object
DocKeys(doc) == {doc.items[i][1] : i \in 1..Len(doc.items)}

\* C10: load_from_json of a file that holds a JSON object returns and leaves
\* the cache with exactly the file's keys: entries held before that are not in
\* the file are gone.
C10_LoadReplaces ==
    (/\ last.op = "load_from_json"
     /\ last.file_before.kind = "json"
     /\ last.file_before.doc.type = "object")
        => /\ last.outcome = Returned
           /\ Keys(Now) = DocKeys(last.file_before.doc)
           /\ \A ip \in Keys(last.before) \ DocKeys(last.file_before.doc) :
                ~HasKey(Now, ip)

\* C10 witness: the cache held an ip the loaded, non-empty file does not.
C10_Witness ==
    /\ last.op = "load_from_json"
    /\ last.outcome = Returned
    /\ last.file_before.kind = "json"
    /\ last.file_before.doc.type = "object"
    /\ last.file_before.doc.items # <<>>
    /\ last.before.type = "dict"
    /\ Keys(last.before) \ DocKeys(last.file_before.doc) # {}

\* C11: a call of copy() yields a cache, and from then on no call on one
\* instance changes the dictionary of another.
C11_CopyIsIndependent ==
    [][/\ last'.op = "copy" => last'.outcome = Returned
       /\ \A i \in Instances \ {last'.self} : caches'[i] = caches[i]
      ]_vars

\* C12: copy() returns a new instance whose dictionary has the keys and
\* values of the original's.
C12_CopyHasSameEntries ==
    last.op = "copy"
        => /\ last.outcome = Returned
           /\ caches["cache_copy"] = caches[last.self]

\* every entry the dictionary held before the last call is still there, with
\* the value it had
EntriesKept ==
    \A ip \in Keys(last.before) :
        HasKey(last.before, ip)
            => HasKey(Now, ip) /\ GetItem(Now, ip) = GetItem(last.before, ip)

\* C13 as claimed: every call other than clear() keeps every entry with its
\* value.
C13_OnlyClearRemoves == last.op # "clear" => EntriesKept

\* C13 as amended: every call other than clear() and load_from_json() keeps
\* every entry with its value.
C13_OnlyClearAndLoadRemove ==
    last.op \notin {"clear", "load_from_json"} => EntriesKept

\* C13 witness: a match_ip_infos call added an entry to a cache that held one.
C13_Witness ==
    /\ last.op = "match_ip_infos"
    /\ last.before.type = "dict"
    /\ Len(last.before.items) = 1
    /\ Len(Now.items) = 2

\* C14: no get_ip_infos or match_ip_infos call of the cache that asked the
\* resolver ends with the resolver's exception.
C14_CacheNeverRaisesForResolver ==
    (last.op \in {"get_ip_infos", "match_ip_infos"} /\ last.calls # <<>>)
        => last.outcome # "OSError"

\* C15: core.get_ip_infos returns for every failure: (None, None) after a
\* network error or a status other than 200, and None for each of org and
\* country the body lacks.
C15_ResolverNormalizesFailures ==
    (resolved.outcome # "none" /\ resolved.requested)
        => LET r == resolved.response
           IN  /\ resolved.outcome = Returned
               /\ (r.fails \/ r.status # 200) => resolved.value = <<None, None>>
               /\ (~r.fails /\ r.status = 200 /\ r.org = Absent)
                    => resolved.value[1] = None
               /\ (~r.fails /\ r.status = 200 /\ r.country = Absent)
                    => resolved.value[2] = None

\* C19: for None and for the empty string core.get_ip_infos returns
\* (None, None) and sends no request.
C19_NoRequestForEmptyAddress ==
    (resolved.outcome # "none" /\ resolved.ip_address \in {None, ""})
        => /\ resolved.outcome = Returned
           /\ resolved.value = <<None, None>>
           /\ ~resolved.requested

\* C19 witness: the empty address was resolved while the service was
\* unreachable.
C19_Witness ==
    /\ resolved.outcome = Returned
    /\ resolved.ip_address = ""
    /\ resolved.response.fails

\* every value of the dictionary is a pair
WellFormed(d) ==
    d.type = "dict" /\ \A i \in 1..Len(d.items) : Len(d.items[i][2].elems) = 2

C17_CountryBeforeOrg ==
    (last.op = "to_data_frame" /\ last.outcome = Returned /\ Now.items # <<>>)
        => /\ last.frame.columns = <<"ip", "country", "org">>
           /\ Len(last.frame.rows) = Len(Now.items)

\* C18: clear() leaves the cache empty and the file as it was; a
\* load_from_json of a saved file by an empty cache brings back the file's
\* keys with their org and country.
C18_ClearKeepsFile ==
    /\ last.op = "clear" => Now = EmptyDict /\ file = last.file_before
    /\ (/\ last.op = "load_from_json"
        /\ last.before = EmptyDict
        /\ last.file_before.kind = "json"
        /\ last.file_before.doc.type = "object")
        => /\ last.outcome = Returned
           /\ Len(Now.items) = Len(file.doc.items)
           /\ \A i \in 1..Len(file.doc.items) :
                /\ i <= Len(Now.items)
                /\ Now.items[i][1] = file.doc.items[i][1]
                /\ Now.items[i][2].elems = file.doc.items[i][2].elems

\* C18 witness: a cache with entries was cleared while the file held a saved
\* object with entries.
C18_Witness ==
    /\ last.op = "clear"
    /\ last.before.items # <<>>
    /\ file.kind = "json"
    /\ file.doc.type = "object"
    /\ file.doc.items # <<>>

\* the scheduled job is in place, without a deadline, at most every_seconds
\* ahead
JobKept ==
    script.pc \in {"idle", "run_pending"}
        => /\ script.jobs = 1
           /\ ~script.has_until
           /\ script.next_run <= script.now + script.every_seconds

Occurs(l, s) ==
    \E i \in 0..Len(s) :
        /\ i + Len(l) <= Len(s)
        /\ \A k \in 1..Len(l) : s[i + k] = l[k]

FirstUncached(s, d) ==
    LET F[i \in 0..Len(s)] ==
            IF i = 0 THEN <<>>
            ELSE IF (\A j \in 1..(i - 1) : s[j] # s[i]) /\ ~HasKey(d, s[i])
                 THEN Append(F[i - 1], s[i])
                 ELSE F[i - 1]
    IN  F[Len(s)]

IsPrefix(s, t) == Len(s) <= Len(t) /\ SubSeq(t, 1, Len(s)) = s

\* C22: the resolver calls of a match_ip_infos call form one sequence, each
\* call ending before the next begins: the ips of the Series that were not
\* cached, each once, in the order of their first occurrence; a call that
\* fails has made the calls up to the failing one, in this order.
C22_CallsInOrderOfFirstOccurrence ==
    (last.op = "match_ip_infos" /\ last.arg.kind = "Series")
        => LET expected == FirstUncached(last.arg.items, last.before)
           IN  /\ IsPrefix(last.calls, expected)
               /\ last.outcome = Returned => last.calls = expected

\* C22 witness: the Series b, a, b cost two calls, first for b, then for a.
C22_Witness ==
    /\ MatchReturned
    /\ last.arg.items = <<"20.54.232.x", "172.217.0.0", "20.54.232.x">>
    /\ last.calls = <<"20.54.232.x", "172.217.0.0">>

\* C23: a click on Cache... opens the dialog on a copy of the window's cache
\* and ends either with Cancel, the window's cache and the file being as
\* before, or with OK, the window's cache being the copy and saved to the file.
C23_DialogWorksOnCopy ==
    last.op = "_show_cache_dialog"
        => /\ last.outcome = Returned
           /\ \/ Now = last.before /\ file = last.file_before
              \/ Now = caches["cache_copy"] /\ file = save_to_json(Now)

\* C29: a run of _update_component that ends with the box Remote Infos
\* checked leaves the file holding the entries of the window's cache, the
\* addresses of the table among them; a run with the box unchecked ends,
\* makes no resolver call and changes neither the cache nor the file.
C29_UpdateSavesCache ==
    (last.op = "_update_component" /\ window.pc = "shown")
        => /\ (window.ip_infos_checkbox /\ last.outcome = Returned)
                => /\ file.kind = "json"
                   /\ Len(file.doc.items) = Len(Now.items)
                   /\ Now.type = "dict"
                        => /\ file.doc.type = "object"
                           /\ \A i \in 1..Len(Now.items) :
                                /\ i <= Len(file.doc.items)
                                /\ file.doc.items[i][1] = Now.items[i][1]
                                /\ file.doc.items[i][2].elems
                                        = Now.items[i][2].elems
                           /\ \A i \in 1..Len(last.arg.items) :
                                last.arg.items[i] \in DocKeys(file.doc)
           /\ ~window.ip_infos_checkbox
                => /\ last.outcome = Returned
                   /\ last.calls = <<>>
                   /\ Now = last.before
                   /\ file = last.file_before

\* C29 witness: a run with the box checked asked the resolver and saved the
\* answer.
C29_Witness ==
    /\ last.op = "_update_component"
    /\ window.pc = "shown"
    /\ window.ip_infos_checkbox
    /\ last.outcome = Returned
    /\ last.calls # <<>>
    /\ file.kind = "json"
    /\ file.doc.items # <<>>

\* the rows of the file the n-th capture wrote
RowsOf(n) ==
    SelectSeq(script.csv, LAMBDA line : line.kind = "row" /\ line.capture = n)

\* the rows of the n-th snapshot the options of the run keep
Kept(n) ==
    LET snapshot == Snapshot(script, n)
    IN  {i \in 1..Len(snapshot) : script.include_privates \/ ~snapshot[i]}

\* C24: once the initial capture has run, the file starts with the header
\* that capture wrote, holds no other header and nothing of an earlier run,
\* and holds, capture after capture, every row of every capture made so far.
C24_OneHeaderRowsKept ==
    script.pc \notin {"none", "start"}
        => LET csv == script.csv
           IN  /\ Len(csv) >= 1
               /\ csv[1].kind = "header" /\ csv[1].capture = 1
               /\ \A i \in 2..Len(csv) :
                    /\ csv[i].kind = "row"
                    /\ csv[i].capture \in 1..script.captures
                    /\ csv[i - 1].capture <= csv[i].capture
               /\ \A n \in 1..script.captures :
                    Len(RowsOf(n)) = Cardinality(Kept(n))

\* C24 witness: the file of an earlier run was overwritten, and it holds
\* rows of the initial and of two scheduled captures.
C24_Witness ==
    /\ script.pc = "done"
    /\ script.snapshots[1] # <<>>
    /\ RowsOf(1) # <<>>
    /\ RowsOf(2) # <<>>
    /\ RowsOf(3) # <<>>
    /\ Len(script.csv) >= 5

\* C25: every row of the file has the columns of the header, in its order.
C25_RowsMatchHeader ==
    script.pc \notin {"none", "start"}
        => \A i \in 2..Len(script.csv) :
                script.csv[i].columns = script.csv[1].columns

\* C26: after every call the cache is a mapping from ip strings to values of
\* two elements, also after load_from_json of a file that holds valid JSON
\* other than an object of two-element arrays.
C26_CacheStaysMapping == WellFormed(caches["cache"])

\* C27: in a cache that started empty and never loaded a file, the number of
\* entries equals the number of resolver calls made since it was empty and
\* the number of distinct addresses it was asked for since then.
C27_EntriesEqualCalls ==
    since.on
        => /\ Len(caches["cache"].items) = since.calls
           /\ Len(caches["cache"].items) = Cardinality(since.asked)

\* C28: a get_ip_infos call in which the resolver raises leaves the mapping
\* as it was; a match_ip_infos call in which the resolver raises has cached
\* the addresses it resolved before, keeps every earlier entry, and has
\* cached neither the failing address nor a later one.
C28_ResolverFailureKeepsEarlier ==
    (last.outcome = "OSError" /\ last.before.type = "dict")
        => /\ last.calls # <<>>
           /\ last.op = "get_ip_infos" => Now = last.before
           /\ last.op = "match_ip_infos"
                => LET done == SubSeq(last.calls, 1, Len(last.calls) - 1)
                   IN  /\ Keys(Now) = Keys(last.before) \cup Elems(done)
                       /\ \A ip \in Keys(last.before) :
                            GetItem(Now, ip) = GetItem(last.before, ip)
                       /\ ~HasKey(Now, last.calls[Len(last.calls)])
                       /\ Len(Now.items)
                            = Len(last.before.items) + Len(done)

\* C28 witness: the resolver answered for the first address of a Series and
\* raised for the second.
C28_Witness ==
    /\ last.op = "match_ip_infos"
    /\ last.outcome = "OSError"
    /\ Len(last.calls) = 2
    /\ last.before = EmptyDict
    /\ Len(Now.items) = 1

====
